---- MODULE Spec2Model ----
(***************************************************************************)
(* Model of the manifest builder of Zeidy-D.                               *)
(*                                                                         *)
(*   mode = "auto"         src/build-manifest.js (lenient, silent rename)  *)
(*   mode = "interactive"  src/unnamed/part_000 lines 141-359 (strict,     *)
(*                         prompts before every rename)                    *)
(*                                                                         *)
(* The first revision in part_000 (lines 1-139) never renames and is the    *)
(* auto revision without its MP3 handling; it is not a mode of the model.  *)
(* Errors of fs.writeFileSync and of the calls inside checkForContent's    *)
(* try block are not modelled.                                             *)
(*                                                                         *)
(* File and directory names are sequences of UTF-16 code units, so that    *)
(* toLowerCase, endsWith, replace, sort and the key order of a JavaScript  *)
(* object are computed the way the engine computes them.                   *)
(***************************************************************************)
EXTENDS Integers, Sequences, FiniteSets, TLC

\* ------------------------------------------------------------------ bounds
\* number of directories below the content root
MaxDirs == 2

\* length of the longest chain of nested directories in the deep trees
DeepestChain == 12

\* ------------------------------------------------------------ code units
DotPdf == <<46, 112, 100, 102>>                         \* ".pdf"
DotPdfUpper == <<46, 80, 68, 70>>                       \* ".PDF"
DotMp3 == <<46, 109, 112, 51>>                          \* ".mp3"
MetaJson == <<109, 101, 116, 97, 46, 106, 115, 111, 110>> \* "meta.json"

\* directory names: "10", "9", "a"
DirNames == { <<49, 48>>, <<57>>, <<97>> }

\* file names
A_pdf == <<97>> \o DotPdf
B_pdf == <<98>> \o DotPdf
A_PDF == <<97>> \o DotPdfUpper
A_pdf_pdf == <<97>> \o DotPdf \o DotPdf
A_mp3 == <<97>> \o DotMp3
B_mp3 == <<98>> \o DotMp3
C_mp3 == <<99>> \o DotMp3
A_pdf_mp3 == <<97>> \o DotPdf \o DotMp3
\* a name with a quotation mark and a backslash: q"\.pdf
Q_pdf == <<113, 34, 92>> \o DotPdf

\* The directory listings a directory may have, in the order readdirSync
\* returns them (the order is the file system's, not sorted).
Menu ==
  { <<>>,
    <<MetaJson>>,
    <<B_mp3>>,
    <<Q_pdf>>,
    <<A_pdf, A_mp3, MetaJson>>,
    <<A_pdf, B_mp3>>,
    <<A_pdf, B_mp3, MetaJson>>,
    <<A_PDF, B_mp3>>,
    <<A_pdf_pdf, B_mp3>>,
    <<A_pdf_pdf, A_pdf_mp3>>,
    <<A_pdf, B_mp3, C_mp3>>,
    <<B_pdf, A_pdf, C_mp3>> }

\* ------------------------------------------------------- string functions
Min(S) == CHOOSE x \in S : \A y \in S : x <= y

\* String.prototype.toLowerCase on the ASCII range
ToLowerCase(s) == [i \in DOMAIN s |-> IF s[i] \in 65..90 THEN s[i] + 32 ELSE s[i]]

\* String.prototype.endsWith
EndsWith(s, suf) ==
  /\ Len(s) >= Len(suf)
  /\ SubSeq(s, Len(s) - Len(suf) + 1, Len(s)) = suf

\* String.prototype.indexOf, 1-based, 0 when absent
IndexOf(s, pat) ==
  LET hits == { i \in 1..(Len(s) - Len(pat) + 1) : SubSeq(s, i, i + Len(pat) - 1) = pat }
  IN  IF hits = {} THEN 0 ELSE Min(hits)

\* String.prototype.replace with a string pattern: the first occurrence only,
\* compared case-sensitively
Replace(s, pat, rep) ==
  LET i == IndexOf(s, pat)
  IN  IF i = 0 THEN s
      ELSE SubSeq(s, 1, i - 1) \o rep \o SubSeq(s, i + Len(pat), Len(s))

\* the comparison Array.prototype.sort() uses without a comparator:
\* code unit by code unit, a proper prefix first
Less(a, b) ==
  LET n == IF Len(a) < Len(b) THEN Len(a) ELSE Len(b)
      diff == { i \in 1..n : a[i] # b[i] }
  IN  IF diff = {} THEN Len(a) < Len(b)
      ELSE a[Min(diff)] < b[Min(diff)]

RECURSIVE SortNames(_)
SortNames(S) ==
  IF S = {} THEN <<>>
  ELSE LET m == CHOOSE x \in S : \A y \in S : y = x \/ Less(x, y)
       IN  <<m>> \o SortNames(S \ {m})

\* ------------------------------------------------------ JavaScript objects
\* An object is the sequence of its own properties in enumeration order.
\* A value is a string, null, or an object.
StrVal(s) == [t |-> "str", s |-> s, o |-> <<>>]
\* mutant: a leaf without a document is stored as an empty object
NullVal_emptyBranch == [t |-> "obj", s |-> <<>>, o |-> <<>>]
NullVal == [t |-> "null", s |-> <<>>, o |-> <<>>]
ObjVal(o) == [t |-> "obj", s |-> <<>>, o |-> o]
EmptyObj == <<>>

\* "4294967295", 2^32 - 1 in decimal
ArrayIndexLimit == <<52, 50, 57, 52, 57, 54, 55, 50, 57, 53>>

\* numeric order of two canonical decimal strings
NumLess(a, b) == Len(a) < Len(b) \/ (Len(a) = Len(b) /\ Less(a, b))

\* a property key that is an array index: a canonical decimal integer
\* below 2^32 - 1
IsArrayIndex(s) ==
  /\ Len(s) >= 1
  /\ \A i \in DOMAIN s : s[i] \in 48..57
  /\ (Len(s) > 1 => s[1] # 48)
  /\ NumLess(s, ArrayIndexLimit)

Keys(obj) == [i \in DOMAIN obj |-> obj[i].k]

HasKey(obj, k) == \E i \in DOMAIN obj : obj[i].k = k

Get(obj, k) == obj[CHOOSE i \in DOMAIN obj : obj[i].k = k].v

\* obj[k] = v: an existing key keeps its place; a new array-index key goes
\* among the array-index keys in ascending numeric order; any other new key
\* goes last
PropSet(obj, k, v) ==
  IF HasKey(obj, k)
  THEN [i \in DOMAIN obj |-> IF obj[i].k = k THEN [k |-> k, v |-> v] ELSE obj[i]]
  ELSE IF IsArrayIndex(k)
  THEN LET before == SelectSeq(obj, LAMBDA e : IsArrayIndex(e.k) /\ NumLess(e.k, k))
           after == SelectSeq(obj, LAMBDA e : ~(IsArrayIndex(e.k) /\ NumLess(e.k, k)))
       IN  before \o <<[k |-> k, v |-> v]>> \o after
  ELSE Append(obj, [k |-> k, v |-> v])

\* Object.assign(target, source)
RECURSIVE ObjectAssign(_, _)
ObjectAssign(target, source) ==
  IF source = <<>> THEN target
  ELSE ObjectAssign(PropSet(target, Head(source).k, Head(source).v), Tail(source))

\* --------------------------------------------------------------- JSON text
Spaces(n) == [i \in 1..n |-> 32]

\* QuoteJSONString: the quotation mark and the backslash are escaped (names
\* with control characters are outside the model)
RECURSIVE EscapeJson(_)
EscapeJson(s) ==
  IF s = <<>> THEN <<>>
  ELSE (IF Head(s) \in {34, 92} THEN <<92, Head(s)>> ELSE <<Head(s)>>) \o EscapeJson(Tail(s))

Quote(s) == <<34>> \o EscapeJson(s) \o <<34>>

\* mutant: null is written as an empty object
NullText_emptyObject == <<123, 125>>

\* "null"
NullText == <<110, 117, 108, 108>>

\* SerializeJSONProperty / SerializeJSONObject with a gap of gap spaces; ind is
\* the indentation of the line the value starts on
RECURSIVE JsonValue(_, _, _)
RECURSIVE JsonMembers(_, _, _)
JsonValue(v, ind, gap) ==
  IF v.t = "str" THEN Quote(v.s)
  ELSE IF v.t = "null" THEN NullText
  ELSE IF v.o = <<>> THEN <<123, 125>>
  ELSE <<123, 10>> \o JsonMembers(v.o, ind + gap, gap) \o <<10>> \o Spaces(ind) \o <<125>>

JsonMembers(obj, ind, gap) ==
  Spaces(ind) \o Quote(Head(obj).k) \o <<58, 32>> \o JsonValue(Head(obj).v, ind, gap)
    \o (IF Tail(obj) = <<>> THEN <<>> ELSE <<44, 10>> \o JsonMembers(Tail(obj), ind, gap))

\* JSON.stringify(manifest, null, 2)
JsonStringify(obj) == JsonValue(ObjVal(obj), 0, 2)

IsJsonSpace(c) == c \in {9, 10, 13, 32}

\* the first position from i on that holds no white space
RECURSIVE SkipWs(_, _)
SkipWs(t, i) == IF i <= Len(t) /\ IsJsonSpace(t[i]) THEN SkipWs(t, i + 1) ELSE i

\* the characters of a string literal whose opening quote is before position
\* i, and the position after its closing quote
RECURSIVE ParseChars(_, _, _)
ParseChars(t, i, acc) ==
  IF t[i] = 34 THEN [v |-> acc, next |-> i + 1]
  ELSE IF t[i] = 92 THEN ParseChars(t, i + 2, Append(acc, t[i + 1]))
  ELSE ParseChars(t, i + 1, Append(acc, t[i]))

\* JSON.parse on a value that starts at position i (after white space): the
\* value and the position after it.  Properties are created in text order.
RECURSIVE ParseValue(_, _)
RECURSIVE ParseMembers(_, _, _)
ParseValue(t, i) ==
  LET j == SkipWs(t, i) IN
  IF t[j] = 34 THEN
    LET str == ParseChars(t, j + 1, <<>>) IN [v |-> StrVal(str.v), next |-> str.next]
  ELSE IF t[j] = 110 THEN [v |-> NullVal, next |-> j + 4]
  ELSE LET k == SkipWs(t, j + 1) IN
       IF t[k] = 125 THEN [v |-> ObjVal(EmptyObj), next |-> k + 1]
       ELSE ParseMembers(t, k, EmptyObj)

ParseMembers(t, i, obj) ==
  LET key == ParseChars(t, SkipWs(t, i) + 1, <<>>)
      colon == SkipWs(t, key.next)
      val == ParseValue(t, colon + 1)
      after == SkipWs(t, val.next)
      grown == PropSet(obj, key.v, val.v)
  IN  IF t[after] = 44 THEN ParseMembers(t, after + 1, grown)
      ELSE [v |-> ObjVal(grown), next |-> after + 1]

\* res.json() in script.js: the tree the browser gets from the text
JsonParse(t) == ParseValue(t, 1).v

\* ------------------------------------------------------------ file system
\* fs maps the path of every directory under the content root (a sequence
\* of directory names, <<>> for the root) to its files in listing order;
\* a file is a name and the identity of its content.
MkListing(names) == [i \in DOMAIN names |-> [name |-> names[i], id |-> i]]

Names(listing) == [i \in DOMAIN listing |-> listing[i].name]

IsPrefix(p, q) == Len(p) <= Len(q) /\ SubSeq(q, 1, Len(p)) = p

SubDirs(f, p) ==
  { q[Len(q)] : q \in { r \in DOMAIN f : Len(r) = Len(p) + 1 /\ IsPrefix(p, r) } }

Cand(S) == { q \o <<d>> : q \in S \cup {<<>>}, d \in DirNames } \ S

RECURSIVE TreeSets(_)
TreeSets(n) ==
  IF n = 0 THEN {{}}
  ELSE LET prev == TreeSets(n - 1)
       IN  prev \cup UNION { { S \cup {p} : p \in Cand(S) } : S \in prev }

\* the file system with the directories S, whose listings g chooses
MkFs(S, g) == [p \in S \cup {<<>>} |-> IF p = <<>> THEN <<>> ELSE MkListing(g[p])]

NoFs == [p \in {} |-> <<>>]

\* build-manifest.js:21-25, part_000:177-181: the subdirectories, sorted
ScanEntries(f, p) == SortNames(SubDirs(f, p))

\* fs.readdirSync(entryPath): files and subdirectories alike
ReadDir(f, p) == Names(f[p]) \o ScanEntries(f, p)

IsPdf(file) == EndsWith(ToLowerCase(file), DotPdf)

IsMp3(file) == EndsWith(ToLowerCase(file), DotMp3)

PdfFiles(allFiles) == SelectSeq(allFiles, IsPdf)

Mp3Files(allFiles) == SelectSeq(allFiles, IsMp3)

InSeq(x, s) == \E i \in DOMAIN s : s[i] = x

\* checkForContent: true means "leaf"
CheckForContent(f, p) ==
  LET files == ReadDir(f, p)
      hasPdf == \E i \in DOMAIN files : IsPdf(files[i])
      hasMeta == InSeq(MetaJson, files)
      hasDirectories == SubDirs(f, p) # {}
  IN  IF hasPdf \/ hasMeta THEN TRUE ELSE ~hasDirectories

\* mutant: the audio extension appended to the whole primary name
ExpectedMp3Name_appended(pdfFile) == pdfFile \o DotMp3

\* const expectedMp3Name = pdfFile.replace(".pdf", ".mp3")
ExpectedMp3Name(pdfFile) == Replace(pdfFile, DotPdf, DotMp3)

\* fs.renameSync inside one directory: an existing target is replaced
RenameSync(listing, old, new) ==
  LET kept == SelectSeq(listing, LAMBDA e : e.name # new)
  IN  [i \in DOMAIN kept |-> IF kept[i].name = old
                             THEN [name |-> new, id |-> kept[i].id]
                             ELSE kept[i]]

\* fs.existsSync(FILES_DIR)
ExistsSync(kind) == kind # "missing"

\* mutant: the strict revision falls back to the lenient policy
MultiPdfIsFatal_never(m) == FALSE

\* part_000:219 - the strict revision aborts on several PDFs
MultiPdfIsFatal(m) == m = "interactive"

\* mutant: several MP3 files end the run in every revision
MultiMp3IsFatal_always(m) == TRUE

\* part_000:233 - the strict revision aborts on several MP3s
MultiMp3IsFatal(m) == m = "interactive"

\* part_000:261 - process.exit(0) after "Build cancelled by user."
QuitExitCode == 0

\* ----------------------------------------------------------- user input
\* what the user may type at the prompt:
\* "y", "Y", "yes", "n", "", "q", " QUIT ", "x"
Answers ==
  { <<121>>, <<89>>, <<121, 101, 115>>, <<110>>, <<>>, <<113>>,
    <<32, 81, 85, 73, 84, 32>>, <<120>> }

IsSpace(c) == c \in {9, 10, 11, 12, 13, 32}

RECURSIVE TrimStart(_)
TrimStart(s) == IF s # <<>> /\ IsSpace(Head(s)) THEN TrimStart(Tail(s)) ELSE s

RECURSIVE TrimEnd(_)
TrimEnd(s) ==
  IF s # <<>> /\ IsSpace(s[Len(s)]) THEN TrimEnd(SubSeq(s, 1, Len(s) - 1)) ELSE s

Trim(s) == TrimEnd(TrimStart(s))

\* promptUser resolves with answer.toLowerCase().trim()
PromptResult(answer) == Trim(ToLowerCase(answer))

IsQuit(response) == response \in { <<113>>, <<113, 117, 105, 116>> }

\* mutant: pressing return alone counts as yes
IsYes_defaultYes(response) == response \in { <<121>>, <<121, 101, 115>>, <<>> }

IsYes(response) == response \in { <<121>>, <<121, 101, 115>> }

\* ------------------------------------------------------------------ state
VARIABLES
  mode,          \* which revision runs
  rootKind,      \* what ./Files is: "dir", "file" or "missing"
  fs,            \* the directories under ./Files
  fs0,           \* fs as it was when the run started
  manifestFile,  \* ./manifest.json on disk
  pc,            \* "start", "scan", "prompt", "write", "exited"
  exitCode,      \* process exit status, -1 while running
  exitReason,    \* which path ended the run
  stack,         \* the active scanDirectory calls, innermost last
  manifest,      \* const manifest = {}
  totalEntries,  \* let totalEntries = 0
  pending,       \* the rename waiting for the user's answer
  log,           \* one record per console line of a finished leaf
  renames,       \* the renameSync calls that succeeded
  classified,    \* the directories checkForContent was called on
  writeCount,    \* calls of writeFileSync
  prompts,       \* calls of promptUser
  manifestJson,  \* the text written to ./manifest.json by this run
  lastAnswer,    \* what the user typed, if the last step consumed an answer
  run,           \* 1 for the first run over the tree, 2 for a run after it
  first,         \* what the first run left, once a second run has started
  page,          \* script.js: "none" before the initializer ran, then "ready"
  siteManifest,  \* the manifest the page got from manifest.json
  items,         \* listItems of renderNav: the <li> elements in document order
  activeItems,   \* the <li> elements that carry the class "active"
  navParam,      \* the text of the nav parameter in the URL
  linkPath,      \* the leaf whose click put the present nav parameter there
  shown,         \* what the last showContent call asked for
  timers,        \* the setTimeout callbacks that have not run yet
  lastNav,       \* the last navigateToPath call and what it returned
  innerWidth,    \* window.innerWidth
  resized,       \* a resize event has been handled since the page loaded
  navOpen,       \* #nav has the class "open"
  overlayActive, \* #nav-overlay has the class "active"
  toggleActive,  \* #nav-toggle has the class "active"
  bodyLocked     \* document.body.style.overflow is "hidden"

vars ==
  << mode, rootKind, fs, fs0, manifestFile, pc, exitCode, exitReason, stack,
     manifest, totalEntries, pending, log, renames, classified, writeCount,
     prompts, manifestJson, lastAnswer, run, first,
     page, siteManifest, items, activeItems, navParam, linkPath, shown, timers,
     lastNav, innerWidth, resized, navOpen, overlayActive, toggleActive,
     bodyLocked >>

\* what script.js keeps: the page, the URL and the mobile navigation
siteVars ==
  << page, siteManifest, items, activeItems, navParam, linkPath, shown, timers,
     lastNav, innerWidth, resized, navOpen, overlayActive, toggleActive,
     bodyLocked >>

\* no nav parameter in the URL
NoParam == <<-1>>

\* no leaf
NoPath == <<<<-1>>>>

NoShown == [relativePath |-> <<>>, pdfPath |-> <<>>, mp3Path |-> <<>>, embeds |-> FALSE,
            called |-> FALSE]

NoNav == [target |-> <<>>, link |-> NoPath, result |-> "none", fullPath |-> <<>>]

\* the width of a desktop window
DesktopWidth == 1280

\* the page has not been opened: no script has run
PageNotOpened ==
  /\ page = "none"
  /\ siteManifest = EmptyObj
  /\ items = <<>>
  /\ activeItems = {}
  /\ navParam = NoParam
  /\ linkPath = NoPath
  /\ shown = NoShown
  /\ timers = {}
  /\ lastNav = NoNav
  /\ innerWidth = DesktopWidth
  /\ resized = FALSE
  /\ navOpen = FALSE
  /\ overlayActive = FALSE
  /\ toggleActive = FALSE
  /\ bodyLocked = FALSE

\* no answer was read in the last step
NoAnswer == <<-1>>

NoFirst == [json |-> <<>>, renameFailed |-> FALSE]

NoPending == [active |-> FALSE, pdfFile |-> <<>>, mp3File |-> <<>>,
              expected |-> <<>>, warns |-> {}]

NewFrame(f, p) ==
  [path |-> p, entries |-> ScanEntries(f, p), i |-> 1, result |-> EmptyObj, depth |-> 0]

Top == stack[Len(stack)]

Entry == Top.entries[Top.i]

EntryPath == Top.path \o <<Entry>>

\* mutant: the loop goes on while a prompt is waiting for its answer
HasNext_whilePrompting == stack # <<>> /\ Top.i <= Len(Top.entries)

HasNext == pc = "scan" /\ stack # <<>> /\ Top.i <= Len(Top.entries)

Init ==
  /\ mode \in {"auto", "interactive"}
  /\ rootKind \in {"dir", "file", "missing"}
  /\ IF rootKind = "dir"
     THEN \E S \in TreeSets(MaxDirs) : \E g \in [S -> Menu] : fs = MkFs(S, g)
     ELSE fs = NoFs
  /\ fs0 = fs
  /\ manifestFile = [src |-> "previous", tree |-> EmptyObj]
  /\ pc = "start"
  /\ exitCode = -1
  /\ exitReason = "none"
  /\ stack = <<>>
  /\ manifest = EmptyObj
  /\ totalEntries = 0
  /\ pending = NoPending
  /\ log = <<>>
  /\ renames = <<>>
  /\ classified = <<>>
  /\ writeCount = 0
  /\ prompts = 0
  /\ manifestJson = <<>>
  /\ lastAnswer = NoAnswer
  /\ run = 1
  /\ first = NoFirst
  /\ PageNotOpened

\* process.exit(code): nothing of the process survives
Exit(code, reason) ==
  /\ pc' = "exited"
  /\ exitCode' = code
  /\ exitReason' = reason
  /\ stack' = <<>>
  /\ pending' = NoPending

\* mutant: after a leaf got its value the scan goes into it as into a branch
FinishLeaf_thenScans(value, warns) ==
  /\ stack' = Append([stack EXCEPT ![Len(stack)] =
                        [@ EXCEPT !.result = PropSet(@, Entry, value)]],
                     [NewFrame(fs, EntryPath) EXCEPT !.depth = Top.depth + 1])
  /\ totalEntries' = totalEntries + 1
  /\ log' = Append(log, [path |-> EntryPath, value |-> value, warns |-> warns])
  /\ pc' = "scan"
  /\ pending' = NoPending
  /\ UNCHANGED << exitCode, exitReason >>

\* mutant: a leaf without meta.json is stored as null
FinishLeaf_metaBlocks(value, warns) ==
  /\ stack' = [stack EXCEPT ![Len(stack)] =
                 [@ EXCEPT !.result =
                      PropSet(@, Entry,
                              IF "missing meta.json" \in warns THEN NullVal ELSE value),
                    !.i = @ + 1]]
  /\ totalEntries' = totalEntries + 1
  /\ log' = Append(log, [path |-> EntryPath,
                         value |-> IF "missing meta.json" \in warns THEN NullVal ELSE value,
                         warns |-> warns])
  /\ pc' = "scan"
  /\ pending' = NoPending
  /\ UNCHANGED << exitCode, exitReason >>

\* result[entry] = value; totalEntries++; console.log(...)
FinishLeaf(value, warns) ==
  /\ stack' = [stack EXCEPT ![Len(stack)] =
                 [@ EXCEPT !.result = PropSet(@, Entry, value), !.i = @ + 1]]
  /\ totalEntries' = totalEntries + 1
  /\ log' = Append(log, [path |-> EntryPath, value |-> value, warns |-> warns])
  /\ pc' = "scan"
  /\ pending' = NoPending
  /\ UNCHANGED << exitCode, exitReason >>

DoRename(mp3File, expected) ==
  /\ fs' = [fs EXCEPT ![EntryPath] = RenameSync(@, mp3File, expected)]
  /\ renames' = Append(renames, [dir |-> EntryPath, from |-> mp3File, to |-> expected])

\* mutant: a content root that cannot be listed is scanned as an empty one
Start_emptyRoot ==
  /\ pc = "start"
  /\ pc' = "scan"
  /\ stack' = <<NewFrame(fs, <<>>)>>
  /\ UNCHANGED << exitCode, exitReason, pending >>
  /\ lastAnswer' = NoAnswer
  /\ UNCHANGED << mode, rootKind, run, first, fs, fs0, manifestFile, manifestJson, manifest, totalEntries,
                  log, renames, classified, writeCount, prompts >>
  /\ UNCHANGED siteVars

\* buildManifest up to the first scanDirectory call
Start ==
  /\ pc = "start"
  /\ IF ~ExistsSync(rootKind)
     THEN Exit(1, "rootMissing")
     ELSE IF rootKind # "dir"
     THEN Exit(1, "fsError")    \* readdirSync throws ENOTDIR, main catches
     ELSE /\ pc' = "scan"
          /\ stack' = <<NewFrame(fs, <<>>)>>
          /\ UNCHANGED << exitCode, exitReason, pending >>
  /\ lastAnswer' = NoAnswer
  /\ UNCHANGED << mode, rootKind, run, first, fs, fs0, manifestFile, manifestJson, manifest, totalEntries,
                  log, renames, classified, writeCount, prompts >>
  /\ UNCHANGED siteVars

\* one iteration of the for loop on a directory with content
ProcessLeaf ==
  /\ HasNext
  /\ CheckForContent(fs, EntryPath)
  /\ classified' = Append(classified, [path |-> EntryPath, leaf |-> TRUE])
  /\ LET allFiles == ReadDir(fs, EntryPath)
         pdfFiles == PdfFiles(allFiles)
         mp3Files == Mp3Files(allFiles)
         w0 == IF InSeq(MetaJson, allFiles) THEN {} ELSE {"missing meta.json"}
         pdfFile == pdfFiles[1]
         mp3File == mp3Files[1]
         expected == ExpectedMp3Name(pdfFile)
     IN
     IF Len(pdfFiles) = 0 THEN
       /\ FinishLeaf(NullVal, w0 \cup {"no PDF files"})
       /\ UNCHANGED << fs, renames, prompts >>
     ELSE IF Len(pdfFiles) > 1 THEN
       IF MultiPdfIsFatal(mode)
       THEN /\ Exit(1, "multiplePdf")
            /\ UNCHANGED << fs, renames, prompts, totalEntries, log >>
       ELSE /\ FinishLeaf(StrVal(pdfFiles[1]),
                 w0 \cup {"multiple PDFs"}
                    \cup (IF Len(mp3Files) > 0 THEN {"MP3 renaming skipped"} ELSE {}))
            /\ UNCHANGED << fs, renames, prompts >>
     ELSE IF Len(mp3Files) > 1 THEN
       IF MultiMp3IsFatal(mode)
       THEN /\ Exit(1, "multipleMp3")
            /\ UNCHANGED << fs, renames, prompts, totalEntries, log >>
       ELSE /\ FinishLeaf(StrVal(pdfFile), w0 \cup {"multiple MP3 files"})
            /\ UNCHANGED << fs, renames, prompts >>
     ELSE IF Len(mp3Files) = 1 /\ mp3File # expected THEN
       IF mode = "interactive"
       THEN /\ pc' = "prompt"
            /\ pending' = [active |-> TRUE, pdfFile |-> pdfFile, mp3File |-> mp3File,
                           expected |-> expected, warns |-> w0]
            /\ prompts' = prompts + 1
            /\ UNCHANGED << fs, renames, stack, totalEntries, log, exitCode, exitReason >>
       ELSE \E ok \in BOOLEAN :
              /\ IF ok
                 THEN /\ DoRename(mp3File, expected)
                      /\ FinishLeaf(StrVal(pdfFile), w0)
                 ELSE /\ FinishLeaf(StrVal(pdfFile), w0 \cup {"failed to rename MP3"})
                      /\ UNCHANGED << fs, renames >>
              /\ UNCHANGED prompts
     ELSE
       /\ FinishLeaf(StrVal(pdfFile), w0)
       /\ UNCHANGED << fs, renames, prompts >>
  /\ lastAnswer' = NoAnswer
  /\ UNCHANGED << mode, rootKind, run, first, fs0, manifestFile, manifestJson, manifest, writeCount >>
  /\ UNCHANGED siteVars

\* the user's answer arrives: part_000:255-278, then 284-291
Respond ==
  /\ pc = "prompt"
  /\ \E answer \in Answers :
       LET response == PromptResult(answer) IN
       /\ lastAnswer' = answer
       /\ IF IsQuit(response) THEN
            /\ Exit(QuitExitCode, "quit")
            /\ UNCHANGED << fs, renames, totalEntries, log >>
          ELSE IF IsYes(response) THEN
            \E ok \in BOOLEAN :
              IF ok
              THEN /\ DoRename(pending.mp3File, pending.expected)
                   /\ FinishLeaf(StrVal(pending.pdfFile), pending.warns)
              ELSE /\ Exit(1, "renameFailed")
                   /\ UNCHANGED << fs, renames, totalEntries, log >>
          ELSE
            /\ FinishLeaf(StrVal(pending.pdfFile),
                          pending.warns \cup {"MP3 file not renamed"})
            /\ UNCHANGED << fs, renames >>
  /\ UNCHANGED << mode, rootKind, run, first, fs0, manifestFile, manifestJson, manifest, classified,
                  writeCount, prompts >>
  /\ UNCHANGED siteVars

\* mutant: a branch is counted as an entry too
Descend_counted ==
  /\ HasNext
  /\ ~CheckForContent(fs, EntryPath)
  /\ classified' = Append(classified, [path |-> EntryPath, leaf |-> FALSE])
  /\ stack' = Append(stack, [NewFrame(fs, EntryPath) EXCEPT !.depth = Top.depth + 1])
  /\ totalEntries' = totalEntries + 1
  /\ lastAnswer' = NoAnswer
  /\ UNCHANGED << mode, rootKind, run, first, fs, fs0, manifestFile, manifestJson, pc, exitCode, exitReason,
                  manifest, pending, log, renames, writeCount, prompts >>
  /\ UNCHANGED siteVars

\* one iteration of the for loop on a directory without content:
\* the recursive scanDirectory call starts
Descend ==
  /\ HasNext
  /\ ~CheckForContent(fs, EntryPath)
  /\ classified' = Append(classified, [path |-> EntryPath, leaf |-> FALSE])
  /\ stack' = Append(stack, [NewFrame(fs, EntryPath) EXCEPT !.depth = Top.depth + 1])
  /\ lastAnswer' = NoAnswer
  /\ UNCHANGED << mode, rootKind, run, first, fs, fs0, manifestFile, manifestJson, pc, exitCode, exitReason,
                  manifest, totalEntries, pending, log, renames, writeCount, prompts >>
  /\ UNCHANGED siteVars

\* scanDirectory returns result: to the caller's result[entry], or, for the
\* root, to Object.assign(manifest, ...)
Return ==
  /\ pc = "scan"
  /\ stack # <<>>
  /\ Top.i > Len(Top.entries)
  /\ IF Len(stack) = 1
     THEN /\ manifest' = ObjectAssign(manifest, Top.result)
          /\ stack' = <<>>
          /\ pc' = "write"
     ELSE /\ stack' =
               LET caller == stack[Len(stack) - 1]
                   rest == SubSeq(stack, 1, Len(stack) - 2)
               IN  Append(rest,
                     [caller EXCEPT
                        !.result = PropSet(@, caller.entries[caller.i], ObjVal(Top.result)),
                        !.i = @ + 1])
          /\ UNCHANGED << manifest, pc >>
  /\ lastAnswer' = NoAnswer
  /\ UNCHANGED << mode, rootKind, run, first, fs, fs0, manifestFile, manifestJson, exitCode, exitReason,
                  totalEntries, pending, log, renames, classified, writeCount, prompts >>
  /\ UNCHANGED siteVars

\* mutant: the manifest is also saved once while the scan is still running
WriteManifest_early ==
  /\ \/ pc = "write"
     \/ pc = "scan" /\ writeCount = 0 /\ stack # <<>>
  /\ manifestFile' = [src |-> "run",
                      tree |-> IF pc = "write" THEN manifest ELSE stack[1].result]
  /\ manifestJson' = JsonStringify(manifestFile'.tree)
  /\ writeCount' = writeCount + 1
  /\ IF pc = "write"
     THEN Exit(0, "ok")
     ELSE UNCHANGED << pc, exitCode, exitReason, stack, pending >>
  /\ lastAnswer' = NoAnswer
  /\ UNCHANGED << mode, rootKind, run, first, fs, fs0, manifest, totalEntries, log, renames,
                  classified, prompts >>
  /\ UNCHANGED siteVars

\* fs.writeFileSync(MANIFEST_FILE, manifestJson) and the normal end of the run
WriteManifest ==
  /\ pc = "write"
  /\ manifestFile' = [src |-> "run", tree |-> manifest]
  /\ manifestJson' = JsonStringify(manifest)
  /\ writeCount' = writeCount + 1
  /\ Exit(0, "ok")
  /\ lastAnswer' = NoAnswer
  /\ UNCHANGED << mode, rootKind, run, first, fs, fs0, manifest, totalEntries, log, renames,
                  classified, prompts >>
  /\ UNCHANGED siteVars

\* a readdirSync of scanDirectory throws; main catches and exits 1
FsThrow ==
  /\ pc = "scan"
  /\ Exit(1, "fsError")
  /\ lastAnswer' = NoAnswer
  /\ UNCHANGED << mode, rootKind, run, first, fs, fs0, manifestFile, manifestJson, manifest, totalEntries,
                  log, renames, classified, writeCount, prompts >>
  /\ UNCHANGED siteVars

Next ==
  \/ Start
  \/ ProcessLeaf
  \/ Respond
  \/ Descend
  \/ Return
  \/ WriteManifest
  \/ FsThrow

Spec == Init /\ [][Next]_vars

\* ------------------------------------------------------------ a second run
\* the orders in which readdirSync may list the entries of a directory
Relistings(listing) ==
  { [i \in DOMAIN listing |-> listing[perm[i]]] : perm \in Permutations(DOMAIN listing) }

\* the file systems that differ from f in the listing order of the
\* directories D only
RECURSIVE Relist(_, _)
Relist(f, D) ==
  IF D = {} THEN {f}
  ELSE LET p == CHOOSE q \in D : TRUE
       IN  UNION { { [g EXCEPT ![p] = l] : l \in Relistings(f[p]) } : g \in Relist(f, D \ {p}) }

\* the auto revision is started again on the tree a completed run left; the
\* directories in which a file got a new name are listed in whatever order
\* the file system now has them
Rerun ==
  /\ pc = "exited"
  /\ exitReason = "ok"
  /\ run = 1
  /\ mode = "auto"
  /\ run' = 2
  /\ first' = [json |-> manifestJson,
               renameFailed |-> \E i \in DOMAIN log : "failed to rename MP3" \in log[i].warns]
  /\ fs' \in Relist(fs, { renames[i].dir : i \in DOMAIN renames })
  /\ fs0' = fs'
  /\ manifestFile' = [src |-> "previous", tree |-> manifestFile.tree]
  /\ manifestJson' = <<>>
  /\ pc' = "start"
  /\ exitCode' = -1
  /\ exitReason' = "none"
  /\ stack' = <<>>
  /\ manifest' = EmptyObj
  /\ totalEntries' = 0
  /\ pending' = NoPending
  /\ log' = <<>>
  /\ renames' = <<>>
  /\ classified' = <<>>
  /\ writeCount' = 0
  /\ prompts' = 0
  /\ lastAnswer' = NoAnswer
  /\ UNCHANGED << mode, rootKind >>
  /\ UNCHANGED siteVars

NextRerun ==
  \/ Next
  \/ Rerun

SpecRerun == Init /\ [][NextRerun]_vars

\* ------------------------------------------------------------- deep trees
\* the directories a, a/a, ... nested d deep
ChainDirs(d) == { [i \in 1..k |-> <<97>>] : k \in 1..d }

\* a content root that holds one chain of nested directories; only the
\* innermost directory has files
InitDeep ==
  /\ mode \in {"auto", "interactive"}
  /\ rootKind = "dir"
  /\ \E d \in 1..DeepestChain : \E l \in Menu :
       fs = [p \in ChainDirs(d) \cup {<<>>} |-> IF Len(p) = d THEN MkListing(l) ELSE <<>>]
  /\ fs0 = fs
  /\ manifestFile = [src |-> "previous", tree |-> EmptyObj]
  /\ pc = "start"
  /\ exitCode = -1
  /\ exitReason = "none"
  /\ stack = <<>>
  /\ manifest = EmptyObj
  /\ totalEntries = 0
  /\ pending = NoPending
  /\ log = <<>>
  /\ renames = <<>>
  /\ classified = <<>>
  /\ writeCount = 0
  /\ prompts = 0
  /\ manifestJson = <<>>
  /\ lastAnswer = NoAnswer
  /\ run = 1
  /\ first = NoFirst
  /\ PageNotOpened

SpecDeep == InitDeep /\ [][Next]_vars

\* ------------------------------------------------ the page: string functions
IsDigit(c) == c \in 48..57

\* \w of a regular expression
IsWordChar(c) == c \in 48..57 \/ c \in 65..90 \/ c \in 97..122 \/ c = 95

\* [-_\s] of cap's regular expression
IsSeparator(c) == c = 45 \/ c = 95 \/ IsSpace(c)

ToUpperChar(c) == IF c \in 97..122 THEN c - 32 ELSE c

\* how many digits s has from position i on
RECURSIVE DigitsFrom(_, _)
DigitsFrom(s, i) == IF i <= Len(s) /\ IsDigit(s[i]) THEN 1 + DigitsFrom(s, i + 1) ELSE 0

\* how many white space characters s has from position i on
RECURSIVE SpacesFrom(_, _)
SpacesFrom(s, i) == IF i <= Len(s) /\ IsSpace(s[i]) THEN 1 + SpacesFrom(s, i + 1) ELSE 0

\* s.replace(/^\d+\s*-\s*/, ""): a leading number with its hyphen is dropped
StripPrefix(s) ==
  LET d == DigitsFrom(s, 1)
      h == d + SpacesFrom(s, d + 1) + 1
  IN  IF d >= 1 /\ h <= Len(s) /\ s[h] = 45
      THEN SubSeq(s, h + 1 + SpacesFrom(s, h + 1), Len(s))
      ELSE s

\* withoutPrefix.replace(/(^|[-_\s])(\w)/g, ...) from position i on
RECURSIVE CapFrom(_, _)
CapFrom(t, i) ==
  IF i > Len(t) THEN <<>>
  ELSE IF i = 1 /\ IsWordChar(t[1]) THEN <<ToUpperChar(t[1])>> \o CapFrom(t, 2)
  ELSE IF IsSeparator(t[i]) /\ i + 1 <= Len(t) /\ IsWordChar(t[i + 1])
  THEN <<32, ToUpperChar(t[i + 1])>> \o CapFrom(t, i + 2)
  ELSE <<t[i]>> \o CapFrom(t, i + 1)

\* cap(s): the display name of a key
cap(s) == IF s = <<>> THEN <<>> ELSE CapFrom(StripPrefix(s), 1)

\* String.prototype.split("/")
RECURSIVE SplitSlash(_)
SplitSlash(s) ==
  LET i == IndexOf(s, <<47>>)
  IN  IF i = 0 THEN <<s>>
      ELSE <<SubSeq(s, 1, i - 1)>> \o SplitSlash(SubSeq(s, i + 1, Len(s)))

\* Array.prototype.join("/")
RECURSIVE JoinSlash(_)
JoinSlash(parts) ==
  IF parts = <<>> THEN <<>>
  ELSE IF Len(parts) = 1 THEN parts[1]
  ELSE parts[1] \o <<47>> \o JoinSlash(Tail(parts))

\* s.replace(/[-\s]/g, "")
DropHyphensAndSpaces(s) == SelectSeq(s, LAMBDA c : ~(c = 45 \/ IsSpace(c)))

\* targetPath.replace(/^\//, "")
StripLeadingSlash(s) == IF s # <<>> /\ s[1] = 47 THEN Tail(s) ELSE s

HexDigits == <<48, 49, 50, 51, 52, 53, 54, 55, 56, 57, 65, 66, 67, 68, 69, 70>>

HexValue(c) == IF c \in 48..57 THEN c - 48 ELSE IF c \in 65..70 THEN c - 55 ELSE c - 87

\* URLSearchParams.set: the application/x-www-form-urlencoded serializer
RECURSIVE UrlEncode(_)
UrlEncode(s) ==
  IF s = <<>> THEN <<>>
  ELSE LET c == Head(s) IN
       (IF c \in 48..57 \/ c \in 65..90 \/ c \in 97..122 \/ c \in {42, 45, 46, 95}
        THEN <<c>>
        ELSE IF c = 32 THEN <<43>>
        ELSE <<37, HexDigits[(c \div 16) + 1], HexDigits[(c % 16) + 1]>>)
       \o UrlEncode(Tail(s))

\* URLSearchParams.get: the application/x-www-form-urlencoded parser
RECURSIVE UrlDecode(_)
UrlDecode(t) ==
  IF t = <<>> THEN <<>>
  ELSE IF Head(t) = 43 THEN <<32>> \o UrlDecode(Tail(t))
  ELSE IF Head(t) = 37 /\ Len(t) >= 3
  THEN <<16 * HexValue(t[2]) + HexValue(t[3])>> \o UrlDecode(SubSeq(t, 4, Len(t)))
  ELSE <<Head(t)>> \o UrlDecode(Tail(t))

\* ------------------------------------------------------ the page: script.js
FilesSlash == <<70, 105, 108, 101, 115, 47>>            \* "Files/"
NoPdfSuffix == <<32, 40, 78, 111, 32, 80, 68, 70, 41>>  \* " (No PDF)"

\* the mobile layout applies up to this width
MobileMaxWidth == 1024

\* Object.keys(data).sort()
SortedKeys(obj) == SortNames({ obj[i].k : i \in DOMAIN obj })

\* renderLevel: the <li> elements of the tree data in document order; keys
\* is what is left of Object.keys(data).sort()
RECURSIVE RenderKeys(_, _, _)
RenderKeys(data, keys, pathPrefix) ==
  IF keys = <<>> THEN <<>>
  ELSE LET key == Head(keys)
           value == Get(data, key)
           currentPath == Append(pathPrefix, key)
           here ==
             IF value.t = "str" \/ value.t = "null"
             THEN << [path |-> currentPath, text |-> cap(key), value |-> value,
                      disabled |-> FALSE, clickable |-> TRUE] >>
             ELSE IF value.t = "obj"
             THEN RenderKeys(value.o, SortedKeys(value.o), currentPath)
             ELSE IF value.t = "null"
             THEN << [path |-> currentPath, text |-> cap(key) \o NoPdfSuffix, value |-> value,
                      disabled |-> TRUE, clickable |-> FALSE] >>
             ELSE <<>>
       IN  here \o RenderKeys(data, Tail(keys), pathPrefix)

\* renderNav(manifest): listItems
RenderNav(m) == RenderKeys(m, SortedKeys(m), <<>>)

\* showContent(relativePath, baseFilename): the paths it asks the server for
ShowContent(relativePath, baseFilename) ==
  LET truthy == baseFilename.t = "str" /\ baseFilename.s # <<>>
      parts == SplitSlash(relativePath)
      actualBaseFilename == IF truthy THEN baseFilename.s ELSE parts[Len(parts)]
  IN  [relativePath |-> relativePath,
       pdfPath |-> FilesSlash \o relativePath \o <<47>> \o actualBaseFilename \o DotPdf,
       mp3Path |-> FilesSlash \o relativePath \o <<47>> \o actualBaseFilename \o DotMp3,
       embeds |-> truthy,
       called |-> TRUE]

\* String(n) for a small index
RECURSIVE Decimal(_)
Decimal(n) == IF n < 10 THEN <<48 + n>> ELSE Decimal(n \div 10) \o <<48 + (n % 10)>>

\* Object.keys(current) for what navigateToPath may hold in current: the
\* own keys of an object, the indices of a string
KeysOfValue(v) ==
  IF v.t = "obj" THEN Keys(v.o)
  ELSE [i \in DOMAIN v.s |-> Decimal(i - 1)]

\* current[key]
GetOfValue(v, key) ==
  IF v.t = "obj" THEN Get(v.o, key)
  ELSE StrVal(<<v.s[CHOOSE i \in DOMAIN v.s : Decimal(i - 1) = key]>>)

\* the test navigateToPath applies to a key for a path part
KeyMatches(key, part) ==
  LET cleanKey == ToLowerCase(StripPrefix(key))
      cleanPart == ToLowerCase(part)
  IN  \/ cleanKey = cleanPart
      \/ DropHyphensAndSpaces(cleanKey) = DropHyphensAndSpaces(cleanPart)

\* the loop of navigateToPath from part i on
RECURSIVE NavigateFrom(_, _, _, _)
NavigateFrom(pathParts, i, current, fullPath) ==
  IF current.t = "null"
  THEN [result |-> "throws", fullPath |-> fullPath, show |-> FALSE,
        value |-> NullVal, key |-> <<>>]
  ELSE LET keys == KeysOfValue(current)
           hits == { k \in DOMAIN keys : KeyMatches(keys[k], pathParts[i]) }
       IN  IF hits = {}
           THEN [result |-> "false", fullPath |-> fullPath, show |-> FALSE,
                 value |-> NullVal, key |-> <<>>]
           ELSE LET matchingKey == keys[Min(hits)]
                    next == GetOfValue(current, matchingKey)
                    path == Append(fullPath, matchingKey)
                IN  IF i = Len(pathParts)
                    THEN [result |-> "true", fullPath |-> path,
                          show |-> next.t = "str" \/ next.t = "null",
                          value |-> next, key |-> matchingKey]
                    ELSE NavigateFrom(pathParts, i + 1, next, path)

\* navigateToPath(targetPath, manifest)
NavigateToPath(targetPath, m) ==
  LET cleanPath == StripLeadingSlash(targetPath)
      split == SplitSlash(cleanPath)
      pathParts == [i \in DOMAIN split |-> Trim(split[i])]
  IN  IF cleanPath = <<>>
      THEN [result |-> "false", fullPath |-> <<>>, show |-> FALSE,
            value |-> NullVal, key |-> <<>>]
      ELSE NavigateFrom(pathParts, 1, ObjVal(m), <<>>)

\* getUrlParameter("nav"): null when the URL has no such parameter
GetUrlParameter(param) == IF param = NoParam THEN NoParam ELSE UrlDecode(param)

\* the nav parameter the click on the leaf at path leaves in the URL
CleanPathParam(path) ==
  UrlEncode(<<47>> \o JoinSlash([i \in DOMAIN path |-> StripPrefix(path[i])]))

Timer(kind) ==
  [kind |-> kind, target |-> <<>>, link |-> NoPath, path |-> <<>>, key |-> <<>>,
   value |-> NullVal, item |-> 0]

\* openNav / closeNav of initMobileNav; the leaf's click handler clears the
\* same four
SetNav(open) ==
  /\ navOpen' = open
  /\ overlayActive' = open
  /\ toggleActive' = open
  /\ bodyLocked' = open

\* checkAutoOpen: the timers it adds
CheckAutoOpen(width, active, open) ==
  IF width <= MobileMaxWidth /\ active = {} /\ ~open THEN {Timer("openNav")} ELSE {}

scanVars ==
  << mode, rootKind, fs, fs0, manifestFile, pc, exitCode, exitReason, stack,
     manifest, totalEntries, pending, log, renames, classified, writeCount,
     prompts, manifestJson, lastAnswer, run, first >>

\* the initializer at the end of script.js: the manifest is fetched and
\* parsed, the navigation rendered, the mobile navigation set up and a
\* navigation to the nav parameter scheduled
InitPage ==
  /\ page = "none"
  /\ pc = "exited"
  /\ writeCount = 1
  /\ page' = "ready"
  /\ siteManifest' = JsonParse(manifestJson).o
  /\ items' = RenderNav(siteManifest')
  /\ LET navParamValue == GetUrlParameter(navParam)
     IN  timers' = CheckAutoOpen(innerWidth, {}, navOpen)
                     \cup (IF navParamValue # NoParam /\ navParamValue # <<>>
                           THEN {[Timer("navigate") EXCEPT !.target = navParamValue,
                                                           !.link = linkPath]}
                           ELSE {})
  /\ UNCHANGED << activeItems, navParam, linkPath, shown, lastNav, innerWidth, resized,
                  navOpen, overlayActive, toggleActive, bodyLocked >>
  /\ UNCHANGED scanVars

\* the click handler of the <li> number i
LeafClick(i) ==
  /\ activeItems' = {i}
  /\ shown' = ShowContent(JoinSlash(items[i].path), items[i].value)
  /\ navParam' = CleanPathParam(items[i].path)
  /\ linkPath' = items[i].path
  /\ IF innerWidth <= MobileMaxWidth
     THEN SetNav(FALSE)
     ELSE UNCHANGED << navOpen, overlayActive, toggleActive, bodyLocked >>

\* the user clicks a list item
ClickLeaf ==
  /\ page = "ready"
  /\ \E i \in DOMAIN items :
       IF items[i].clickable
       THEN LeafClick(i)
       ELSE UNCHANGED << activeItems, shown, navParam, linkPath, navOpen, overlayActive,
                         toggleActive, bodyLocked >>
  /\ UNCHANGED << page, siteManifest, items, timers, lastNav, innerWidth, resized >>
  /\ UNCHANGED scanVars

\* the timer of the initializer: navigateToPath(navParam, manifest); a
\* failure clears the parameter, an exception leaves the callback
TimerNavigate ==
  /\ page = "ready"
  /\ \E t \in timers :
       /\ t.kind = "navigate"
       /\ LET nav == NavigateToPath(t.target, siteManifest) IN
          /\ lastNav' = [target |-> t.target, link |-> t.link, result |-> nav.result,
                         fullPath |-> nav.fullPath]
          /\ timers' = (timers \ {t}) \cup
               (IF nav.result = "true" /\ nav.show
                THEN {[Timer("show") EXCEPT !.path = nav.fullPath, !.key = nav.key,
                                            !.value = nav.value]}
                ELSE {})
          /\ IF nav.result = "false"
             THEN navParam' = NoParam /\ linkPath' = NoPath
             ELSE UNCHANGED << navParam, linkPath >>
  /\ UNCHANGED << page, siteManifest, items, activeItems, shown, innerWidth, resized,
                  navOpen, overlayActive, toggleActive, bodyLocked >>
  /\ UNCHANGED scanVars

\* the timer of navigateToPath: the leaf is shown and the list items are
\* marked by their text
TimerShow ==
  /\ page = "ready"
  /\ \E t \in timers :
       /\ t.kind = "show"
       /\ timers' = timers \ {t}
       /\ shown' = ShowContent(JoinSlash(t.path), t.value)
       /\ activeItems' = { i \in DOMAIN items : Trim(items[i].text) = cap(t.key) }
  /\ UNCHANGED << page, siteManifest, items, navParam, linkPath, lastNav, innerWidth,
                  resized, navOpen, overlayActive, toggleActive, bodyLocked >>
  /\ UNCHANGED scanVars

\* the user loads the page again with the URL as it is
Reload ==
  /\ page = "ready"
  /\ page' = "none"
  /\ siteManifest' = EmptyObj
  /\ items' = <<>>
  /\ activeItems' = {}
  /\ shown' = NoShown
  /\ timers' = {}
  /\ lastNav' = NoNav
  /\ resized' = FALSE
  /\ SetNav(FALSE)
  /\ UNCHANGED << navParam, linkPath, innerWidth >>
  /\ UNCHANGED scanVars

\* ---------------------------------------------- the page on a given manifest
\* keys that differ in their number prefix, case, hyphen or space only
Key_1_a == <<49, 45, 97>>        \* "1-a"
Key_2_a == <<50, 45, 97>>        \* "2-a"
Key_A == <<65>>                  \* "A"
Key_a_b == <<97, 32, 98>>        \* "a b"
Key_a_hyphen_b == <<97, 45, 98>> \* "a-b"

NavKeys == { Key_1_a, Key_2_a, Key_A, Key_a_b, Key_a_hyphen_b }

SectionKeys == { Key_1_a, Key_A }

\* how many keys one level of a manifest has at most
MaxKeys == 2

\* what the scanner stores for a leaf
LeafValues == { StrVal(A_pdf), NullVal }

\* the object with the keys of keys, set in this order as the scanner does
RECURSIVE MkObject(_, _)
MkObject(keys, f) ==
  IF keys = <<>> THEN EmptyObj
  ELSE PropSet(MkObject(SubSeq(keys, 1, Len(keys) - 1), f), keys[Len(keys)], f[keys[Len(keys)]])

\* the trees with one to MaxKeys of the keys K, their values from V
Trees(K, V) ==
  UNION { { MkObject(SortNames(S), f) : f \in [S -> V] } :
          S \in { T \in SUBSET K : Cardinality(T) \in 1..MaxKeys } }

Sections == { ObjVal(o) : o \in Trees(SectionKeys, LeafValues) }

NavManifests == Trees(NavKeys, LeafValues \cup Sections)

\* nav parameters a visitor may arrive with, as typed
NavTargets ==
  { <<47, 97>>,                  \* "/a"
    <<47, 97, 47, 97>>,          \* "/a/a"
    <<47, 97, 47, 97, 47, 98>>,  \* "/a/a/b"
    <<47, 97, 47, 48>>,          \* "/a/0"
    <<47, 97, 98>>,              \* "/ab"
    <<47, 120>>,                 \* "/x"
    <<47, 97, 47>>,              \* "/a/"
    <<47>>,                      \* "/"
    <<>> }                       \* ""

\* a scan has written the manifest m; a visitor opens the page
InitNav ==
  /\ \E m \in NavManifests :
       /\ manifest = m
       /\ manifestFile = [src |-> "run", tree |-> m]
       /\ manifestJson = JsonStringify(m)
  /\ mode = "auto"
  /\ rootKind = "dir"
  /\ fs = NoFs
  /\ fs0 = NoFs
  /\ pc = "exited"
  /\ exitCode = 0
  /\ exitReason = "ok"
  /\ stack = <<>>
  /\ totalEntries = 0
  /\ pending = NoPending
  /\ log = <<>>
  /\ renames = <<>>
  /\ classified = <<>>
  /\ writeCount = 1
  /\ prompts = 0
  /\ lastAnswer = NoAnswer
  /\ run = 1
  /\ first = NoFirst
  /\ page = "none"
  /\ siteManifest = EmptyObj
  /\ items = <<>>
  /\ activeItems = {}
  /\ navParam \in {NoParam} \cup { UrlEncode(t) : t \in NavTargets }
  /\ linkPath = NoPath
  /\ shown = NoShown
  /\ timers = {}
  /\ lastNav = NoNav
  /\ innerWidth = DesktopWidth
  /\ resized = FALSE
  /\ navOpen = FALSE
  /\ overlayActive = FALSE
  /\ toggleActive = FALSE
  /\ bodyLocked = FALSE

NextNav ==
  \/ InitPage
  \/ ClickLeaf
  \/ TimerNavigate
  \/ TimerShow
  \/ Reload

SpecNav == InitNav /\ [][NextNav]_vars

\* ------------------------------------- the page on the scanner's own manifest
\* the scan runs, then a visitor opens the page and clicks leaves
NextSite ==
  \/ Next
  \/ InitPage
  \/ ClickLeaf

SpecSite == Init /\ [][NextSite]_vars

\* ------------------------------------------------------ the mobile navigation
\* window widths on both sides of the 1024 breakpoint
Widths == { 800, MobileMaxWidth, MobileMaxWidth + 1, DesktopWidth }

\* click on #nav-toggle: toggleNav
ToggleClick ==
  /\ page = "ready"
  /\ SetNav(~navOpen)
  /\ UNCHANGED << page, siteManifest, items, activeItems, navParam, linkPath, shown,
                  timers, lastNav, innerWidth, resized >>
  /\ UNCHANGED scanVars

\* click on #nav-overlay: closeNav
OverlayClick ==
  /\ page = "ready"
  /\ SetNav(FALSE)
  /\ UNCHANGED << page, siteManifest, items, activeItems, navParam, linkPath, shown,
                  timers, lastNav, innerWidth, resized >>
  /\ UNCHANGED scanVars

\* keydown of Escape while the nav is open: closeNav
EscapeKey ==
  /\ page = "ready"
  /\ navOpen
  /\ SetNav(FALSE)
  /\ UNCHANGED << page, siteManifest, items, activeItems, navParam, linkPath, shown,
                  timers, lastNav, innerWidth, resized >>
  /\ UNCHANGED scanVars

\* the resize handler: above the breakpoint closeNav, else checkAutoOpen;
\* with an active item, a click on the first of them is scheduled
Resize ==
  /\ page = "ready"
  /\ \E w \in Widths :
       /\ innerWidth' = w
       /\ LET reclick == IF activeItems = {} THEN {}
                         ELSE {[Timer("reclick") EXCEPT !.item = Min(activeItems)]}
          IN  IF w > MobileMaxWidth
              THEN /\ SetNav(FALSE)
                   /\ timers' = timers \cup reclick
              ELSE /\ UNCHANGED << navOpen, overlayActive, toggleActive, bodyLocked >>
                   /\ timers' = timers \cup CheckAutoOpen(w, activeItems, navOpen)
                                       \cup reclick
  /\ resized' = TRUE
  /\ UNCHANGED << page, siteManifest, items, activeItems, navParam, linkPath, shown,
                  lastNav >>
  /\ UNCHANGED scanVars

\* the timer of checkAutoOpen fires: openNav
TimerOpenNav ==
  /\ page = "ready"
  /\ \E t \in timers :
       /\ t.kind = "openNav"
       /\ timers' = timers \ {t}
  /\ SetNav(TRUE)
  /\ UNCHANGED << page, siteManifest, items, activeItems, navParam, linkPath, shown,
                  lastNav, innerWidth, resized >>
  /\ UNCHANGED scanVars

\* the timer of the resize handler fires: activeItem.click()
TimerReclick ==
  /\ page = "ready"
  /\ \E t \in timers :
       /\ t.kind = "reclick"
       /\ timers' = timers \ {t}
       /\ IF items[t.item].clickable
          THEN LeafClick(t.item)
          ELSE UNCHANGED << activeItems, shown, navParam, linkPath, navOpen,
                            overlayActive, toggleActive, bodyLocked >>
  /\ UNCHANGED << page, siteManifest, items, lastNav, innerWidth, resized >>
  /\ UNCHANGED scanVars

MobileManifests == Trees(SectionKeys, LeafValues)

\* a scan has written the manifest m; a visitor opens the page in a window
\* of some width, without a nav parameter
InitMobile ==
  /\ \E m \in MobileManifests :
       /\ manifest = m
       /\ manifestFile = [src |-> "run", tree |-> m]
       /\ manifestJson = JsonStringify(m)
  /\ mode = "auto"
  /\ rootKind = "dir"
  /\ fs = NoFs
  /\ fs0 = NoFs
  /\ pc = "exited"
  /\ exitCode = 0
  /\ exitReason = "ok"
  /\ stack = <<>>
  /\ totalEntries = 0
  /\ pending = NoPending
  /\ log = <<>>
  /\ renames = <<>>
  /\ classified = <<>>
  /\ writeCount = 1
  /\ prompts = 0
  /\ lastAnswer = NoAnswer
  /\ run = 1
  /\ first = NoFirst
  /\ page = "none"
  /\ siteManifest = EmptyObj
  /\ items = <<>>
  /\ activeItems = {}
  /\ navParam = NoParam
  /\ linkPath = NoPath
  /\ shown = NoShown
  /\ timers = {}
  /\ lastNav = NoNav
  /\ innerWidth \in Widths
  /\ resized = FALSE
  /\ navOpen = FALSE
  /\ overlayActive = FALSE
  /\ toggleActive = FALSE
  /\ bodyLocked = FALSE

NextMobile ==
  \/ InitPage
  \/ ClickLeaf
  \/ ToggleClick
  \/ OverlayClick
  \/ EscapeKey
  \/ Resize
  \/ TimerOpenNav
  \/ TimerReclick

SpecMobile == InitMobile /\ [][NextMobile]_vars

TypeOK ==
  /\ pc \in {"start", "scan", "prompt", "write", "exited"}
  /\ exitCode \in {-1, 0, 1}
  /\ writeCount \in 0..1

\* ---------------------------------------------------------------- helpers
\* the name without its last four code units (the dot and the extension)
StemOf(file) == SubSeq(file, 1, Len(file) - 4)

KeySet(obj) == { obj[i].k : i \in DOMAIN obj }

\* the files of directory p when the run started
Files0(p) == Names(fs0[p])

\* the files of directory p now
FilesNow(p) == Names(fs[p])

HasContentFile0(p) ==
  \E i \in DOMAIN Files0(p) : IsPdf(Files0(p)[i]) \/ Files0(p)[i] = MetaJson

\* the run ended without reaching the end of buildManifest
Fatal == pc = "exited" /\ exitReason # "ok"

\* every directory under p that the tree obj describes as a branch has a key
\* for each of its subdirectories
RECURSIVE CompleteAt(_, _)
CompleteAt(obj, p) ==
  /\ KeySet(obj) = SubDirs(fs0, p)
  /\ \A i \in DOMAIN obj :
       obj[i].v.t = "obj" => CompleteAt(obj[i].v.o, p \o <<obj[i].k>>)

\* the value the tree obj holds for the directory at path p (p # <<>>)
RECURSIVE NodeAt(_, _)
NodeAt(obj, p) ==
  IF Len(p) = 1 THEN Get(obj, p[1])
  ELSE NodeAt(Get(obj, p[1]).o, Tail(p))

SecondaryWarnings ==
  { "multiple PDFs", "MP3 renaming skipped", "multiple MP3 files",
    "failed to rename MP3", "MP3 file not renamed" }

\* ------------------------------------------------------------------ claims

C2_RenameLeavesPrimaryAlone ==
  /\ \A i \in DOMAIN renames :
       /\ IsMp3(renames[i].from)
       /\ \A j \in DOMAIN Files0(renames[i].dir) :
            IsPdf(Files0(renames[i].dir)[j]) => renames[i].to # Files0(renames[i].dir)[j]
  /\ \A p \in DOMAIN fs0 : \A j \in DOMAIN fs0[p] :
       IsPdf(fs0[p][j].name) => InSeq(fs0[p][j], fs[p])

\* C3 as claimed: once the manifest is written, in every leaf whose value is
\* a primary file name P every .mp3 file has the stem of P.
C3_NamingInvariantEveryLeaf ==
  writeCount = 1 =>
    \A i \in DOMAIN log :
      log[i].value.t = "str" =>
        \A j \in DOMAIN FilesNow(log[i].path) :
          IsMp3(FilesNow(log[i].path)[j]) =>
            StemOf(FilesNow(log[i].path)[j]) = StemOf(log[i].value.s)

\* C3 amended: once the manifest is written, in every leaf whose value is a
\* primary file name P and that raised no warning about its primary or
\* secondary files (several PDFs, several MP3s, rename failed, rename
\* declined), every .mp3 file has the stem of P.
C3_NamingInvariantUnwarnedLeaf ==
  writeCount = 1 =>
    \A i \in DOMAIN log :
      (log[i].value.t = "str" /\ log[i].warns \cap SecondaryWarnings = {}) =>
        \A j \in DOMAIN FilesNow(log[i].path) :
          IsMp3(FilesNow(log[i].path)[j]) =>
            StemOf(FilesNow(log[i].path)[j]) = StemOf(log[i].value.s)

\* C3 witness: the manifest is written after a rename that left an .mp3 file
\* in an unwarned leaf
C3_Witness ==
  /\ writeCount = 1
  /\ \E i \in DOMAIN log : \E r \in DOMAIN renames :
       /\ renames[r].dir = log[i].path
       /\ log[i].warns \cap SecondaryWarnings = {}
       /\ IsMp3(renames[r].to)
       /\ InSeq(renames[r].to, FilesNow(log[i].path))

\* C4: in auto mode a leaf with exactly one primary file X.pdf and exactly
\* one secondary file Y.mp3, Y # X, whose rename did not fail, ends with the
\* secondary file named X.mp3, was not prompted for, and has the value X.pdf.
C4_AutoRenamesToPrimaryStem ==
  mode = "auto" =>
    \A i \in DOMAIN log :
      LET files == Files0(log[i].path)
          pdfs == PdfFiles(files)
          mp3s == Mp3Files(files)
      IN  ( /\ Len(pdfs) = 1 /\ EndsWith(pdfs[1], DotPdf)
            /\ Len(mp3s) = 1 /\ EndsWith(mp3s[1], DotMp3)
            /\ StemOf(mp3s[1]) # StemOf(pdfs[1])
            /\ "failed to rename MP3" \notin log[i].warns )
          => /\ InSeq(StemOf(pdfs[1]) \o DotMp3, FilesNow(log[i].path))
             /\ ~InSeq(mp3s[1], FilesNow(log[i].path))
             /\ log[i].value = StrVal(pdfs[1])
             /\ prompts = 0

\* C5: in the strict revision, as soon as a directory with more than one
\* primary file has been reached the run is over with exit status 1 and
\* manifest.json is what it was before the run.
C5_StrictMultiPdfAborts ==
  mode = "interactive" =>
    \A i \in DOMAIN classified :
      (classified[i].leaf /\ Len(PdfFiles(Files0(classified[i].path))) > 1) =>
        /\ pc = "exited"
        /\ exitCode = 1
        /\ writeCount = 0
        /\ manifestFile = [src |-> "previous", tree |-> EmptyObj]

\* C5 witness: the conflict is met after an earlier leaf was finished
C5_Witness ==
  /\ exitReason = "multiplePdf"
  /\ log # <<>>

\* C6: in auto mode the value of a leaf with two or more primary files is
\* the lexicographically smallest of their names, a warning is recorded and
\* nothing in the leaf is renamed.
C6_LenientPicksSmallestPdf ==
  mode = "auto" =>
    \A i \in DOMAIN log :
      LET pdfs == PdfFiles(Files0(log[i].path)) IN
      Len(pdfs) >= 2 =>
        /\ log[i].value = StrVal(SortNames({ pdfs[j] : j \in DOMAIN pdfs })[1])
        /\ "multiple PDFs" \in log[i].warns
        /\ \A r \in DOMAIN renames : renames[r].dir # log[i].path

\* C7: a run the user quit has a non-zero exit status and wrote no manifest.
C7_QuitExitsNonZero ==
  exitReason = "quit" =>
    /\ pc = "exited"
    /\ exitCode # 0
    /\ writeCount = 0

\* C8: when the content root is missing or is not a directory, the run is
\* over after its first step with a non-zero exit status, nothing classified
\* and nothing written.
C8_BadRootIsFatal ==
  (rootKind # "dir" /\ pc # "start") =>
    /\ pc = "exited"
    /\ exitCode # -1 /\ exitCode # 0
    /\ classified = <<>>
    /\ log = <<>>
    /\ writeCount = 0
    /\ manifestFile = [src |-> "previous", tree |-> EmptyObj]

\* C8 witness: the run on a missing root has ended
C8_Witness ==
  /\ rootKind = "missing"
  /\ pc = "exited"

\* C9: a classified directory with a primary file or meta.json is a leaf; one
\* without but with subdirectories is a branch; one with neither is not a
\* leaf either, so that every leaf entry stands for a directory with at
\* least one content file.
C9_Classification ==
  /\ \A i \in DOMAIN classified :
       classified[i].leaf <=> HasContentFile0(classified[i].path)
  /\ \A i \in DOMAIN log : HasContentFile0(log[i].path)

\* C10: when the tree has no content files and the manifest is written, the
\* node of every directory that holds subdirectories and nothing else is a
\* branch whose keys are its subdirectory names in sorted order.
C10_BranchKeysSorted ==
  (writeCount = 1 /\ \A p \in DOMAIN fs0 : fs0[p] = <<>>) =>
    /\ SubDirs(fs0, <<>>) # {} => Keys(manifestFile.tree) = ScanEntries(fs0, <<>>)
    /\ \A p \in DOMAIN fs0 :
         (p # <<>> /\ SubDirs(fs0, p) # {}) =>
           /\ NodeAt(manifestFile.tree, p).t = "obj"
           /\ Keys(NodeAt(manifestFile.tree, p).o) = ScanEntries(fs0, p)

\* the tree read back from the text this run wrote
Written == JsonParse(manifestJson).o

\* C11: in the written manifest the keys of every branch are in the order in
\* which the scanner inserted them, the sorted order of the subdirectory
\* names, also for names made of decimal digits.
C11_WrittenKeysInInsertionOrder ==
  writeCount = 1 =>
    /\ Keys(Written) = ScanEntries(fs0, <<>>)
    /\ \A i \in DOMAIN classified :
         ~classified[i].leaf =>
           Keys(NodeAt(Written, classified[i].path).o) = ScanEntries(fs0, classified[i].path)

\* the maximum depth the specification asks for, two less than the deepest
\* chain so that a scanDirectory call beyond it exists
DepthCap == DeepestChain - 2

\* C12: no scanDirectory call runs at a depth beyond the maximum depth, and
\* no directory nested deeper than that is classified.
C12_DepthIsCapped ==
  /\ \A i \in DOMAIN stack : stack[i].depth <= DepthCap
  /\ \A i \in DOMAIN classified : Len(classified[i].path) <= DepthCap + 1

\* the console line of the leaf at path p, if the leaf was finished
LogOf(p) == { i \in DOMAIN log : log[i].path = p }

\* C13: in either revision a classified leaf with exactly one primary file
\* and more than one secondary file is finished with the primary file name
\* as its value and a warning, nothing in it is renamed, and the run is not
\* ended by it.
C13_MultiMp3Recovered ==
  \A c \in DOMAIN classified :
    LET files == Files0(classified[c].path) IN
    (classified[c].leaf /\ Len(PdfFiles(files)) = 1 /\ Len(Mp3Files(files)) > 1) =>
      /\ exitReason # "multipleMp3"
      /\ \E i \in LogOf(classified[c].path) :
           /\ log[i].value = StrVal(PdfFiles(files)[1])
           /\ "multiple MP3 files" \in log[i].warns
      /\ \A r \in DOMAIN renames : renames[r].dir # classified[c].path

\* C14: a renameSync that throws never ends the run; the leaf is finished
\* with the warning, the primary file name as its value, and its files under
\* the names they had.
C14_RenameFailureIsWarning ==
  /\ exitReason # "renameFailed"
  /\ \A i \in DOMAIN log :
       "failed to rename MP3" \in log[i].warns =>
         /\ log[i].value = StrVal(PdfFiles(Files0(log[i].path))[1])
         /\ fs[log[i].path] = fs0[log[i].path]

\* the answers that are neither y/yes nor q/quit once lower-cased and trimmed
IsDeclineAnswer(answer) ==
  /\ answer # NoAnswer
  /\ PromptResult(answer) \notin
       { <<121>>, <<121, 101, 115>>, <<113>>, <<113, 117, 105, 116>> }

\* C15: a prompt is shown once per leaf and is never shown again for it: the
\* step that takes the answer leaves the prompt, and an answer that is not
\* y/yes/q/quit (the empty one included) finishes the leaf with the primary
\* file name as value and the warning, renames nothing, and moves the scan
\* to the next entry.
C15_DeclineWithoutReprompt ==
  [][ /\ prompts' # prompts =>
           /\ prompts' = prompts + 1
           /\ pc # "prompt" /\ pc' = "prompt"
           /\ Len(classified') = Len(classified) + 1
      /\ pc = "prompt" =>
           /\ pc' # "prompt"
           /\ lastAnswer' \in Answers
      /\ (pc = "prompt" /\ IsDeclineAnswer(lastAnswer')) =>
           /\ pc' = "scan"
           /\ fs' = fs
           /\ renames' = renames
           /\ log' = Append(log, [path |-> EntryPath,
                                  value |-> StrVal(pending.pdfFile),
                                  warns |-> pending.warns \cup {"MP3 file not renamed"}])
           /\ stack'[Len(stack')].path = Top.path
           /\ stack'[Len(stack')].i = Top.i + 1
    ]_vars

\* C15 witness: the user just pressed return at a prompt and the scan went on
C15_Witness ==
  /\ lastAnswer = <<>>
  /\ pc = "scan"
  /\ log # <<>>
  /\ "MP3 file not renamed" \in log[Len(log)].warns

\* the step that classifies the current entry as a leaf holding no .pdf file
NoPdfLeafStep ==
  /\ HasNext
  /\ classified' = Append(classified, [path |-> EntryPath, leaf |-> TRUE])
  /\ PdfFiles(FilesNow(EntryPath)) = <<>>

\* C16: a leaf without a .pdf file gets null as its value together with the
\* "no PDF" warning, whatever .mp3 or meta.json files it holds; nothing in it
\* is renamed, no prompt is shown for it, and the scan goes on with the next
\* entry of the same directory; the null is what manifest.json holds for it.
C16_NoPdfLeafIsNull ==
  /\ [](\A i \in DOMAIN log :
          PdfFiles(Files0(log[i].path)) = <<>> =>
            /\ log[i].value.t = "null"
            /\ "no PDF files" \in log[i].warns
            /\ fs[log[i].path] = fs0[log[i].path]
            /\ \A r \in DOMAIN renames : renames[r].dir # log[i].path
            /\ writeCount = 1 => NodeAt(Written, log[i].path).t = "null")
  /\ [][ NoPdfLeafStep =>
           /\ pc' = "scan"
           /\ exitReason' = exitReason
           /\ prompts' = prompts
           /\ fs' = fs
           /\ Len(log') = Len(log) + 1
           /\ log'[Len(log')].path = EntryPath
           /\ stack'[Len(stack')].i = Top.i + 1
           /\ Get(stack'[Len(stack')].result, Entry).t = "null"
       ]_vars

\* C16 witness: a leaf holding only an .mp3 file got null and the scan went
\* on to finish another leaf after it
C16_Witness ==
  \E i \in DOMAIN log :
    /\ Files0(log[i].path) = <<B_mp3>>
    /\ log[i].value.t = "null"
    /\ i < Len(log)
    /\ writeCount = 1

\* the listing without its meta.json entry
WithoutMeta(files) == SelectSeq(files, LAMBDA f : f # MetaJson)

\* C17: meta.json decides nothing but one warning.  Two finished leaves whose
\* listings are the same apart from meta.json have the same manifest value;
\* when the rename in both had the same outcome (the same warnings apart from
\* the meta.json one) their files are named the same afterwards; and a leaf
\* carries the "missing meta.json" warning exactly when it has no meta.json.
C17_MetaJsonOnlyWarns ==
  /\ \A i \in DOMAIN log :
       ("missing meta.json" \in log[i].warns) <=> ~InSeq(MetaJson, Files0(log[i].path))
  /\ writeCount = 1 =>
       LET written == Written
       IN  \A i \in DOMAIN log : NodeAt(written, log[i].path) = log[i].value
  /\ \A i \in DOMAIN log : \A j \in (i + 1)..Len(log) :
       WithoutMeta(Files0(log[i].path)) = WithoutMeta(Files0(log[j].path)) =>
         /\ log[i].value = log[j].value
         /\ (log[i].warns \ {"missing meta.json"} = log[j].warns \ {"missing meta.json"}) =>
              WithoutMeta(FilesNow(log[i].path)) = WithoutMeta(FilesNow(log[j].path))

\* C17 witness: two leaves holding a.pdf and b.mp3, one of them with
\* meta.json, both had the .mp3 renamed and both are in the written manifest
C17_Witness ==
  /\ writeCount = 1
  /\ Len(renames) = 2
  /\ \E i, j \in DOMAIN log :
       /\ Files0(log[i].path) = <<A_pdf, B_mp3>>
       /\ Files0(log[j].path) = <<A_pdf, B_mp3, MetaJson>>
       /\ log[i].value = StrVal(A_pdf)

\* the leaf listings C18 speaks of: exactly one primary file X.pdf and either
\* no .mp3 file or exactly one, named X.mp3
AlreadyConsistent(files) ==
  LET pdfs == PdfFiles(files)
      mp3s == Mp3Files(files)
  IN /\ Len(pdfs) = 1
     /\ EndsWith(pdfs[1], DotPdf)
     /\ mp3s = <<>> \/ mp3s = << StemOf(pdfs[1]) \o DotMp3 >>

\* C18: a leaf whose files are already consistent (one X.pdf and no .mp3, or
\* one X.pdf and X.mp3) gets X.pdf as its value, keeps every file name, gets
\* no warning about the .mp3 file and causes no prompt.
C18_ConsistentLeafUntouched ==
  \A i \in DOMAIN classified :
    (classified[i].leaf /\ AlreadyConsistent(Files0(classified[i].path))) =>
      /\ \E j \in LogOf(classified[i].path) :
           /\ log[j].value = StrVal(PdfFiles(Files0(classified[i].path))[1])
           /\ log[j].warns \cap SecondaryWarnings = {}
      /\ fs[classified[i].path] = fs0[classified[i].path]
      /\ \A r \in DOMAIN renames : renames[r].dir # classified[i].path
      /\ ~(pc = "prompt" /\ i = Len(classified))

\* C19: when an auto run has completed with every rename it tried done, a
\* second run over the tree it left renames nothing, tries no rename, and
\* writes the same bytes to manifest.json as the first run did.
C19_SecondRunIsIdentical ==
  (run = 2 /\ ~first.renameFailed) =>
    /\ renames = <<>>
    /\ \A i \in DOMAIN log : "failed to rename MP3" \notin log[i].warns
    /\ writeCount = 1 => manifestJson = first.json

\* C20: parsing the text written to manifest.json gives back the in-memory
\* tree: the same keys in the same order and the same values at every level.
\* A leaf without a document comes back as null, a leaf with one as a string
\* and a branch as an object, so the three stay apart.
C20_ManifestRoundTrip ==
  writeCount = 1 =>
    LET parsed == JsonParse(manifestJson)
    IN  /\ parsed = ObjVal(manifest)
        /\ \A i \in DOMAIN log :
             /\ NodeAt(parsed.o, log[i].path) = log[i].value
             /\ log[i].value.t \in {"null", "str"}
        /\ \A i \in DOMAIN classified :
             ~classified[i].leaf => NodeAt(parsed.o, classified[i].path).t = "obj"

\* C20 witness: the written manifest holds a null leaf and a string leaf
\* whose name needs escaping
C20_Witness ==
  /\ writeCount = 1
  /\ \E i, j \in DOMAIN log :
       /\ log[i].value.t = "null"
       /\ log[j].value = StrVal(Q_pdf)
       /\ NodeAt(Written, log[i].path).t = "null"
       /\ NodeAt(Written, log[j].path).t = "str"

\* C21: in the auto revision no warning ends the run or changes its status.
\* A run whose content root is a directory and in which no file system call
\* throws still has a directory to go on with while it scans, ends with
\* status 0 and has written manifest.json, however many leaves were reported
\* with warnings; the only ways out with another status are a missing root
\* and a thrown call.
C21_WarningsKeepExitZero ==
  mode = "auto" =>
    /\ exitReason \in {"none", "ok", "rootMissing", "fsError"}
    /\ pc \in {"start", "scan", "write", "exited"}
    /\ pc = "scan" => stack # <<>>
    /\ pc # "exited" => exitCode = -1 /\ exitReason = "none"
    /\ (pc = "exited" /\ exitReason \notin {"rootMissing", "fsError"}) =>
         /\ exitCode = 0
         /\ exitReason = "ok"
         /\ writeCount = 1
         /\ manifestFile.src = "run"

\* C21 witness: an auto run ended with status 0 and a written manifest after
\* reporting a leaf with several PDFs and a leaf whose rename failed
C21_Witness ==
  /\ mode = "auto"
  /\ pc = "exited"
  /\ exitCode = 0
  /\ writeCount = 1
  /\ \E i, j \in DOMAIN log :
       /\ "multiple PDFs" \in log[i].warns
       /\ "failed to rename MP3" \in log[j].warns

\* the number of string and null values in the tree obj, at any depth
RECURSIVE LeafCount(_)
LeafCount(obj) ==
  IF obj = <<>> THEN 0
  ELSE (IF Head(obj).v.t = "obj" THEN LeafCount(Head(obj).v.o) ELSE 1) + LeafCount(Tail(obj))

\* C22: totalEntries counts the directories handled as leaves and nothing
\* else: at every moment it is the number of leaves finished so far, a
\* branch never adds to it, and after a successful write it is the number
\* of string and null values in the manifest that was written.
C22_TotalIsLeafCount ==
  /\ [](LET leaves == Cardinality({ i \in DOMAIN classified : classified[i].leaf })
        IN  /\ totalEntries = Len(log)
            /\ totalEntries <= leaves
            /\ leaves <= totalEntries + 1
            /\ writeCount = 1 =>
                 /\ totalEntries = LeafCount(Written)
                 /\ totalEntries = leaves)
  /\ [][ /\ totalEntries' # totalEntries =>
              /\ totalEntries' = totalEntries + 1
              /\ Len(log') = Len(log) + 1
              /\ Len(stack') <= Len(stack)
         /\ (Len(classified') > Len(classified) /\ ~classified'[Len(classified')].leaf) =>
              totalEntries' = totalEntries
     ]_vars

\* C22 witness: a written manifest with a branch and leaves under it
C22_Witness ==
  /\ writeCount = 1
  /\ exitReason = "ok"
  /\ totalEntries >= 1
  /\ \E i \in DOMAIN classified : ~classified[i].leaf
  /\ LeafCount(Written) = totalEntries

\* the directories below p in the order a depth-first walk over the sorted
\* entries meets them, each with the class checkForContent gives it
RECURSIVE VisitOrder(_, _)
VisitOrder(p, entries) ==
  IF entries = <<>> THEN <<>>
  ELSE LET q == p \o <<Head(entries)>> IN
       IF CheckForContent(fs0, q)
       THEN <<[path |-> q, leaf |-> TRUE]>> \o VisitOrder(p, Tail(entries))
       ELSE <<[path |-> q, leaf |-> FALSE]>> \o VisitOrder(q, ScanEntries(fs0, q))
              \o VisitOrder(p, Tail(entries))

Below(p, q) == Len(p) > Len(q) /\ IsPrefix(q, p)

\* C24: nothing below a leaf is touched.  No directory below a directory
\* that was classified as a leaf is ever classified, no file in such a
\* directory gets a new name, and in the written manifest the leaf's value
\* is a string or null, never a tree of what lies below it.
C24_NothingBelowALeaf ==
  /\ [](\A i \in DOMAIN classified :
         classified[i].leaf =>
           /\ \A j \in DOMAIN classified : ~Below(classified[j].path, classified[i].path)
           /\ \A k \in DOMAIN stack : ~Below(stack[k].path, classified[i].path)
                                        /\ stack[k].path # classified[i].path
           /\ \A r \in DOMAIN renames : ~Below(renames[r].dir, classified[i].path)
           /\ \A q \in DOMAIN fs : Below(q, classified[i].path) => fs[q] = fs0[q]
           /\ writeCount = 1 => NodeAt(Written, classified[i].path).t \in {"str", "null"})
  /\ [][ \A i \in DOMAIN classified :
           classified[i].leaf =>
             /\ \A q \in DOMAIN fs : Below(q, classified[i].path) => fs'[q] = fs[q]
             /\ Len(stack') > Len(stack) =>
                  ~IsPrefix(classified[i].path, stack'[Len(stack')].path)
     ]_vars

\* C24 witness: a leaf that has a subdirectory holding a PDF and an MP3 to
\* rename is in the written manifest
C24_Witness ==
  /\ writeCount = 1
  /\ \E i \in DOMAIN classified :
       /\ classified[i].leaf
       /\ \E q \in DOMAIN fs0 :
            /\ Below(q, classified[i].path)
            /\ Files0(q) = <<A_pdf, B_mp3>>

\* C25: every list item of a null manifest entry is a disabled item labelled
\* "<name> (No PDF)" without a click handler, so no click on it reaches
\* showContent.
C25_NullItemDisabled ==
  page = "ready" =>
    \A i \in DOMAIN items :
      items[i].value.t = "null" =>
        /\ items[i].disabled
        /\ ~items[i].clickable
        /\ items[i].text = cap(items[i].path[Len(items[i].path)]) \o NoPdfSuffix
        /\ linkPath # items[i].path
        /\ i \notin activeItems

\* C26: when the visitor clicks a leaf whose manifest value is the file name
\* v the scanner stored, showContent asks for and embeds Files/<path>/<v>,
\* a file of that directory, and asks for the audio under the same stem
\* with .mp3, the name the scanner's rename gives the audio file.
C26_PageAsksForRecordedFile ==
  (shown.called /\ linkPath # NoPath) =>
    \A i \in DOMAIN log :
      (log[i].path = linkPath /\ log[i].value.t = "str") =>
        /\ shown.pdfPath = FilesSlash \o JoinSlash(linkPath) \o <<47>> \o log[i].value.s
        /\ InSeq(log[i].value.s, FilesNow(linkPath))
        /\ shown.mp3Path = FilesSlash \o JoinSlash(linkPath) \o <<47>>
                             \o StemOf(log[i].value.s) \o DotMp3
        /\ shown.embeds

\* C27: at most one list item carries the class "active", whatever leaves
\* were clicked and whatever deep links were followed.
C27_AtMostOneActive ==
  Cardinality(activeItems) <= 1

\* C28: a deep link made by a click leads back to the clicked leaf.  When the
\* page is opened with the nav parameter that the click on a leaf left in
\* the URL, navigateToPath succeeds and resolves to the path of that leaf,
\* key by key.
C28_DeepLinkRoundTrip ==
  (lastNav.result # "none" /\ lastNav.link # NoPath) =>
    /\ lastNav.result = "true"
    /\ lastNav.fullPath = lastNav.link

\* the parts of a nav parameter value, as navigateToPath splits it
C29_PathParts(targetPath) ==
  LET split == SplitSlash(StripLeadingSlash(targetPath))
  IN  [i \in DOMAIN split |-> Trim(split[i])]

\* every part from the i-th on matches a key at its level; nothing matches
\* below a leaf
RECURSIVE C29_Resolves(_, _, _)
C29_Resolves(pathParts, i, current) ==
  IF current.t # "obj"
  THEN FALSE
  ELSE LET keys == KeysOfValue(current)
           hits == { k \in DOMAIN keys : KeyMatches(keys[k], pathParts[i]) }
       IN  /\ hits # {}
           /\ \/ i = Len(pathParts)
              \/ C29_Resolves(pathParts, i + 1, GetOfValue(current, keys[Min(hits)]))

\* C29: navigateToPath never throws, whatever the nav parameter and the
\* manifest; it returns false exactly when some part matches no key at its
\* level, a path that continues below a string or null leaf included, and
\* after a false result the initializer has removed the nav parameter.
C29_NavigationNeverThrows ==
  lastNav.result # "none" =>
    /\ lastNav.result # "throws"
    /\ (lastNav.result = "true") <=>
         /\ StripLeadingSlash(lastNav.target) # <<>>
         /\ C29_Resolves(C29_PathParts(lastNav.target), 1, ObjVal(siteManifest))
    /\ (lastNav.result = "false" /\ linkPath = NoPath) => navParam = NoParam

\* C30: under every interleaving of toggle clicks, overlay clicks, Escape,
\* leaf clicks, resize events and the delayed auto-open timer, the nav's
\* "open" class, the overlay's "active" class, the toggle's "active" class
\* and the body scroll lock are all set or all cleared together, and once a
\* resize to a width above 1024 has been handled the nav is not open again
\* while the width stays above 1024.
C30_MobileNavConsistent ==
  /\ overlayActive = navOpen
  /\ toggleActive = navOpen
  /\ bodyLocked = navOpen
  /\ (resized /\ innerWidth > MobileMaxWidth) => ~navOpen

====
